---- MODULE Spec2Model ----
(***************************************************************************)
(* A model of the line scanner of rushell (src/src/scanner.rs) and of the  *)
(* whitespace splitter the read-eval loop uses (src/src/line_parser.rs).   *)
(*                                                                         *)
(* One behaviour is one call of Scanner::scan_tokens on one source line.   *)
(* The line is a sequence of characters; a character is a one-character    *)
(* string, and MultiByte stands for a character whose UTF-8 encoding takes *)
(* two bytes.  The code mixes byte lengths (String::len, string slicing)   *)
(* with character indices (chars().nth, chars().skip), so the model keeps  *)
(* both views of the line.                                                 *)
(***************************************************************************)
EXTENDS Integers, Sequences, FiniteSets, TLC

\* Longest source line explored.
MaxLen == 4

\* Number of tokens the token vector can hold before its allocation fails.
MaxTokens == 6

\* A character whose UTF-8 encoding is two bytes long.
MultiByte == "U"

Alphabet == {"a", "n", "$", " ", "\t", "'", "\"", "\\", "|", MultiByte}

Inputs == UNION {[1..n -> Alphabet] : n \in 0..MaxLen}

VARIABLES
    source,         \* Scanner.source, as a sequence of characters
    pc,             \* position of the scan in the code
    previous_arm,   \* scan_tokens: previous_arm
    tokens,         \* scan_tokens: tokens
    current,        \* scan_tokens: current
    start,          \* scan_tokens: start
    uw_current,     \* scan_unquoted_word: current
    uw_value,       \* scan_unquoted_word: value
    dq_iter,        \* scan_double_quoted_string: character index iter yields next
    dq_value,       \* scan_double_quoted_string: value
    caller,         \* who called scan_double_quoted_string
    result,         \* the value scan_tokens returned
    shell_pc,       \* position of the read-eval loop in the code
    input,          \* Shell::repl: input
    args            \* Shell::repl: args

\* The variables of the read-eval loop.
shell_vars == <<shell_pc, input, args>>

\* The variables of a scan.
scan_vars == <<source, pc, previous_arm, tokens, current, start,
               uw_current, uw_value, dq_iter, dq_value, caller, result>>

vars == <<source, pc, previous_arm, tokens, current, start,
          uw_current, uw_value, dq_iter, dq_value, caller, result,
          shell_pc, input, args>>

-----------------------------------------------------------------------------
(* Strings: bytes, characters, slicing *)

\* The UTF-8 encoding of one character, as a sequence of bytes.
Utf8(ch) == IF ch = MultiByte THEN <<"lead", "cont">> ELSE <<ch>>

RECURSIVE Bytes(_)
Bytes(s) == IF s = <<>> THEN <<>> ELSE Utf8(Head(s)) \o Bytes(Tail(s))

RECURSIVE Decode(_)
Decode(bs) ==
    IF bs = <<>> THEN <<>>
    ELSE IF Head(bs) = "cont" THEN Decode(Tail(bs))
    ELSE IF Head(bs) = "lead" THEN <<MultiByte>> \o Decode(Tail(bs))
    ELSE <<Head(bs)>> \o Decode(Tail(bs))

\* self.source.len(): the length of the line in bytes.
SourceLen == Len(Bytes(source))

\* self.source.chars().nth(n) is Some(..) exactly when n is a character index.
HasChar(n) == n < Len(source)

\* self.source.chars().nth(n).unwrap(), for n a character index (0-based).
CharAt(n) == source[n + 1]

IsCharBoundary(i) ==
    \/ i = 0
    \/ i = SourceLen
    \/ i < SourceLen /\ Bytes(source)[i + 1] # "cont"

\* self.source[lo..hi] panics unless lo <= hi <= len and both are boundaries.
SliceOk(lo, hi) == lo <= hi /\ hi <= SourceLen /\ IsCharBoundary(lo) /\ IsCharBoundary(hi)

SliceValue(lo, hi) == Decode(SubSeq(Bytes(source), lo + 1, hi))

-----------------------------------------------------------------------------
(* Tokens and results *)

StringToken(lexeme) == [type_ |-> "String", lexeme |-> lexeme]

EofToken == [type_ |-> "Eof", lexeme |-> <<>>]

NoResult == [kind |-> "none", tokens |-> <<>>, message |-> ""]

OkResult(ts) == [kind |-> "Ok", tokens |-> ts, message |-> ""]

ErrResult(msg) == [kind |-> "Err", tokens |-> <<>>, message |-> msg]

\* The messages of the three errors (the grave accent of the source's
\* messages is left out: a string here cannot hold it).
SingleQuoteMessage == "unexpected EOF while looking for matching ''"

DoubleQuoteMessage == "unexpected EOF while looking for matching \"'"

BackslashMessage == "unexpected EOF after '\\'"

\* What a sub-scanner hands back: Ok((pos, value)), Err(message) or a panic.
SubOk(pos, value) == [kind |-> "Ok", pos |-> pos, value |-> value, message |-> ""]

SubErr(msg) == [kind |-> "Err", pos |-> 0, value |-> <<>>, message |-> msg]

SubPanic == [kind |-> "Panic", pos |-> 0, value |-> <<>>, message |-> ""]

-----------------------------------------------------------------------------
(* Pure helpers of the scanner *)

\* is_metacharacter with the tab left out of the metacharacters.
is_metacharacter_NoTab(ch) == ch \in {" ", "\n", "|", "&", ";", "(", ")", "<", ">"}

is_metacharacter(ch) == ch \in {" ", "\t", "\n", "|", "&", ";", "(", ")", "<", ">"}

\* The for loop of scan_single_quoted_string: the character index of the
\* first ' at or after character index i, or -1 when there is none.
RECURSIVE FindClosingSingleQuote(_)
FindClosingSingleQuote(i) ==
    IF ~HasChar(i) THEN -1
    ELSE IF CharAt(i) = "'" THEN i
    ELSE FindClosingSingleQuote(i + 1)

scan_single_quoted_string(s) ==
    LET end_at == FindClosingSingleQuote(s + 1) IN
    IF end_at = -1 THEN SubErr(SingleQuoteMessage)
    ELSE IF ~SliceOk(s + 1, end_at) THEN SubPanic
    ELSE SubOk(end_at + 1, SliceValue(s + 1, end_at))

\* The match of scan_double_quoted_string on the character after a backslash
\* (NoChar when the iterator is exhausted): what is pushed onto value.
NoChar == "NUL"

\* The grave accent character.
Backtick == "GRAVE"

\* DoubleQuotedEscape with \n read as a line break.
DoubleQuotedEscape_LineBreak(ch) ==
    IF ch \in {"$", Backtick, "\"", "\\"} THEN <<ch>>
    ELSE IF ch = "n" THEN <<"\n">>
    ELSE <<"\\">>

DoubleQuotedEscape(ch) ==
    IF ch \in {"$", Backtick, "\"", "\\"} THEN <<ch>>
    ELSE IF ch = "n" THEN <<"\\", "n">>
    ELSE <<"\\">>

-----------------------------------------------------------------------------
(* State machine *)

Init ==
    /\ source \in Inputs
    /\ pc = "loop"
    /\ previous_arm = "None"
    /\ tokens = <<>>
    /\ current = 0
    /\ start = 0
    /\ uw_current = 0
    /\ uw_value = <<>>
    /\ dq_iter = 0
    /\ dq_value = <<>>
    /\ caller = "none"
    /\ result = NoResult
    /\ shell_pc = "off"
    /\ input = <<>>
    /\ args = <<>>

\* The character scan_tokens dispatches on: chars().nth(start).
c == CharAt(start)

\* scan_tokens, lines 36-40: the loop test holds, a character is read.
ReadChar ==
    /\ pc = "loop"
    /\ current < SourceLen
    /\ start' = current
    /\ current' = IF HasChar(current) THEN current + 1 ELSE current
    /\ pc' = IF HasChar(current) THEN "branch" ELSE "panic"
    /\ UNCHANGED <<source, previous_arm, tokens, uw_current, uw_value,
                   dq_iter, dq_value, caller, result>>
    /\ UNCHANGED shell_vars

\* Finish without the push of the Eof token.
Finish_NoEof ==
    /\ pc = "loop"
    /\ ~(current < SourceLen)
    /\ result' = OkResult(tokens)
    /\ pc' = "done"
    /\ UNCHANGED <<source, previous_arm, tokens, current, start, uw_current,
                   uw_value, dq_iter, dq_value, caller>>
    /\ UNCHANGED shell_vars

\* scan_tokens, lines 36, 68-69: the loop test fails, Eof is pushed.
Finish ==
    /\ pc = "loop"
    /\ ~(current < SourceLen)
    /\ tokens' = Append(tokens, EofToken)
    /\ result' = OkResult(tokens')
    /\ pc' = "done"
    /\ UNCHANGED <<source, previous_arm, current, start, uw_current, uw_value,
                   dq_iter, dq_value, caller>>
    /\ UNCHANGED shell_vars

\* scan_tokens, line 41: a space or a tab does nothing.
SkipWhitespace ==
    /\ pc = "branch"
    /\ c = " " \/ c = "\t"
    /\ pc' = "loop"
    /\ UNCHANGED <<source, previous_arm, tokens, current, start, uw_current,
                   uw_value, dq_iter, dq_value, caller, result>>
    /\ UNCHANGED shell_vars

\* scan_tokens, lines 42-46.
SingleQuotedArm ==
    /\ pc = "branch"
    /\ c = "'"
    /\ LET value == scan_single_quoted_string(start) IN
       /\ pc' = CASE value.kind = "Ok" -> "loop"
                  [] value.kind = "Err" -> "error"
                  [] OTHER -> "panic"
       /\ tokens' = IF value.kind = "Ok"
                    THEN Append(tokens, StringToken(value.value)) ELSE tokens
       /\ current' = IF value.kind = "Ok" THEN value.pos ELSE current
       /\ previous_arm' = IF value.kind = "Ok" THEN "SingleQuoted" ELSE previous_arm
       /\ result' = IF value.kind = "Err" THEN ErrResult(value.message) ELSE result
    /\ UNCHANGED <<source, start, uw_current, uw_value, dq_iter, dq_value, caller>>
    /\ UNCHANGED shell_vars

\* scan_tokens, line 48 and scan_double_quoted_string, lines 74-78.
DoubleQuotedArm ==
    /\ pc = "branch"
    /\ c = "\""
    /\ caller' = "scan_tokens"
    /\ dq_iter' = start + 1
    /\ dq_value' = <<>>
    /\ pc' = "double_quoted"
    /\ UNCHANGED <<source, previous_arm, tokens, current, start, uw_current,
                   uw_value, result>>
    /\ UNCHANGED shell_vars

\* scan_tokens, line 53 and scan_unquoted_word, lines 155-156.
UnquotedArm ==
    /\ pc = "branch"
    /\ c \notin {" ", "\t", "'", "\""}
    /\ uw_current' = start
    /\ uw_value' = <<>>
    /\ pc' = "unquoted"
    /\ UNCHANGED <<source, previous_arm, tokens, current, start, dq_iter,
                   dq_value, caller, result>>
    /\ UNCHANGED shell_vars

\* scan_double_quoted_string, lines 79 and 115-119: the iterator is exhausted.
DoubleQuotedEof ==
    /\ pc = "double_quoted"
    /\ ~HasChar(dq_iter)
    /\ pc' = "error"
    /\ result' = ErrResult(DoubleQuoteMessage)
    /\ UNCHANGED <<source, previous_arm, tokens, current, start, uw_current,
                   uw_value, dq_iter, dq_value, caller>>
    /\ UNCHANGED shell_vars

\* scan_double_quoted_string, lines 81-84 and 120-124: the closing quote;
\* then the caller's use of the returned pair (scan_tokens, lines 49-51, or
\* scan_unquoted_word, lines 179-180).
DoubleQuotedClose ==
    /\ pc = "double_quoted"
    /\ HasChar(dq_iter)
    /\ CharAt(dq_iter) = "\""
    /\ IF caller = "scan_tokens"
       THEN /\ tokens' = Append(tokens, StringToken(dq_value))
            /\ current' = dq_iter + 1
            /\ previous_arm' = "DoubleQuoted"
            /\ pc' = "loop"
            /\ UNCHANGED <<uw_current, uw_value>>
       ELSE /\ uw_value' = uw_value \o dq_value
            /\ uw_current' = dq_iter + 1
            /\ pc' = "unquoted"
            /\ UNCHANGED <<tokens, current, previous_arm>>
    /\ dq_iter' = 0
    /\ dq_value' = <<>>
    /\ caller' = "none"
    /\ UNCHANGED <<source, start, result>>
    /\ UNCHANGED shell_vars

\* scan_double_quoted_string, lines 92-110: a backslash and the item after it.
DoubleQuotedBackslash ==
    /\ pc = "double_quoted"
    /\ HasChar(dq_iter)
    /\ CharAt(dq_iter) = "\\"
    /\ LET next == IF HasChar(dq_iter + 1) THEN CharAt(dq_iter + 1) ELSE NoChar IN
       dq_value' = dq_value \o DoubleQuotedEscape(next)
    /\ dq_iter' = dq_iter + 2
    /\ UNCHANGED <<source, pc, previous_arm, tokens, current, start, uw_current,
                   uw_value, caller, result>>
    /\ UNCHANGED shell_vars

\* scan_double_quoted_string, lines 111-113: any other character.
DoubleQuotedChar ==
    /\ pc = "double_quoted"
    /\ HasChar(dq_iter)
    /\ CharAt(dq_iter) \notin {"\"", "\\"}
    /\ dq_value' = Append(dq_value, CharAt(dq_iter))
    /\ dq_iter' = dq_iter + 1
    /\ UNCHANGED <<source, pc, previous_arm, tokens, current, start, uw_current,
                   uw_value, caller, result>>
    /\ UNCHANGED shell_vars

\* scan_unquoted_word, lines 158-159: the loop test.  It reads
\* chars().nth(current).unwrap() whenever current < self.source.len().
UnquotedContinues == uw_current < SourceLen /\ HasChar(uw_current)
                        /\ ~is_metacharacter(CharAt(uw_current))

\* scan_unquoted_word, line 159: unwrap() of None.
UnquotedPanic ==
    /\ pc = "unquoted"
    /\ uw_current < SourceLen
    /\ ~HasChar(uw_current)
    /\ pc' = "panic"
    /\ UNCHANGED <<source, previous_arm, tokens, current, start, uw_current,
                   uw_value, dq_iter, dq_value, caller, result>>
    /\ UNCHANGED shell_vars

\* UnquotedBackslash with the backslash kept in the word.
UnquotedBackslash_Kept ==
    /\ pc = "unquoted"
    /\ UnquotedContinues
    /\ CharAt(uw_current) = "\\"
    /\ IF uw_current + 1 < SourceLen
       THEN IF HasChar(uw_current + 1)
            THEN /\ uw_value' = uw_value \o <<"\\", CharAt(uw_current + 1)>>
                 /\ uw_current' = uw_current + 2
                 /\ UNCHANGED <<pc, result>>
            ELSE /\ pc' = "panic"
                 /\ uw_current' = uw_current + 1
                 /\ UNCHANGED <<uw_value, result>>
       ELSE /\ pc' = "error"
            /\ result' = ErrResult(BackslashMessage)
            /\ uw_current' = uw_current + 1
            /\ UNCHANGED uw_value
    /\ UNCHANGED <<source, previous_arm, tokens, current, start, dq_iter,
                   dq_value, caller>>
    /\ UNCHANGED shell_vars

\* scan_unquoted_word, lines 162-172: a backslash.
UnquotedBackslash ==
    /\ pc = "unquoted"
    /\ UnquotedContinues
    /\ CharAt(uw_current) = "\\"
    /\ IF uw_current + 1 < SourceLen
       THEN IF HasChar(uw_current + 1)
            THEN /\ uw_value' = Append(uw_value, CharAt(uw_current + 1))
                 /\ uw_current' = uw_current + 2
                 /\ UNCHANGED <<pc, result>>
            ELSE /\ pc' = "panic"
                 /\ uw_current' = uw_current + 1
                 /\ UNCHANGED <<uw_value, result>>
       ELSE /\ pc' = "error"
            /\ result' = ErrResult(BackslashMessage)
            /\ uw_current' = uw_current + 1
            /\ UNCHANGED uw_value
    /\ UNCHANGED <<source, previous_arm, tokens, current, start, dq_iter,
                   dq_value, caller>>
    /\ UNCHANGED shell_vars

\* scan_unquoted_word, lines 173-176: a single quote.
UnquotedSingleQuote ==
    /\ pc = "unquoted"
    /\ UnquotedContinues
    /\ CharAt(uw_current) = "'"
    /\ LET ret == scan_single_quoted_string(uw_current) IN
       /\ pc' = CASE ret.kind = "Ok" -> "unquoted"
                  [] ret.kind = "Err" -> "error"
                  [] OTHER -> "panic"
       /\ uw_value' = IF ret.kind = "Ok" THEN uw_value \o ret.value ELSE uw_value
       /\ uw_current' = IF ret.kind = "Ok" THEN ret.pos ELSE uw_current
       /\ result' = IF ret.kind = "Err" THEN ErrResult(ret.message) ELSE result
    /\ UNCHANGED <<source, previous_arm, tokens, current, start, dq_iter,
                   dq_value, caller>>
    /\ UNCHANGED shell_vars

\* scan_unquoted_word, line 178 and scan_double_quoted_string, lines 74-78.
UnquotedDoubleQuote ==
    /\ pc = "unquoted"
    /\ UnquotedContinues
    /\ CharAt(uw_current) = "\""
    /\ caller' = "scan_unquoted_word"
    /\ dq_iter' = uw_current + 1
    /\ dq_value' = <<>>
    /\ pc' = "double_quoted"
    /\ UNCHANGED <<source, previous_arm, tokens, current, start, uw_current,
                   uw_value, result>>
    /\ UNCHANGED shell_vars

\* scan_unquoted_word, lines 181-184: any other character.
UnquotedChar ==
    /\ pc = "unquoted"
    /\ UnquotedContinues
    /\ CharAt(uw_current) \notin {"\\", "'", "\""}
    /\ uw_value' = Append(uw_value, CharAt(uw_current))
    /\ uw_current' = uw_current + 1
    /\ UNCHANGED <<source, pc, previous_arm, tokens, current, start, dq_iter,
                   dq_value, caller, result>>
    /\ UNCHANGED shell_vars

\* scan_tokens, lines 54-62: what the unquoted arm does with the word.
\* After a quoted arm the word is appended to the last token, otherwise it
\* is pushed as a new token.
PushUnquoted(ts, arm, value) ==
    IF arm \in {"SingleQuoted", "DoubleQuoted"}
    THEN IF ts # <<>>
         THEN SubSeq(ts, 1, Len(ts) - 1)
                \o <<StringToken(ts[Len(ts)].lexeme \o value)>>
         ELSE ts
    ELSE Append(ts, StringToken(value))

\* scan_unquoted_word, lines 158-159 and 187: the loop test fails and the
\* word is returned; scan_tokens, lines 54-64, then uses it.  A push onto a
\* token vector that cannot grow any more aborts the process.
UnquotedReturn ==
    /\ pc = "unquoted"
    /\ ~(uw_current < SourceLen) \/ (HasChar(uw_current) /\ is_metacharacter(CharAt(uw_current)))
    /\ IF previous_arm = "None" /\ Len(tokens) >= MaxTokens
       THEN /\ pc' = "abort"
            /\ UNCHANGED <<tokens, previous_arm, current>>
       ELSE /\ tokens' = PushUnquoted(tokens, previous_arm, uw_value)
            /\ previous_arm' = "None"
            /\ current' = uw_current
            /\ pc' = "loop"
    /\ uw_current' = 0
    /\ uw_value' = <<>>
    /\ UNCHANGED <<source, start, dq_iter, dq_value, caller, result>>
    /\ UNCHANGED shell_vars

Next ==
    \/ ReadChar
    \/ Finish
    \/ SkipWhitespace
    \/ SingleQuotedArm
    \/ DoubleQuotedArm
    \/ UnquotedArm
    \/ DoubleQuotedEof
    \/ DoubleQuotedClose
    \/ DoubleQuotedBackslash
    \/ DoubleQuotedChar
    \/ UnquotedPanic
    \/ UnquotedBackslash
    \/ UnquotedSingleQuote
    \/ UnquotedDoubleQuote
    \/ UnquotedChar
    \/ UnquotedReturn

Spec == Init /\ [][Next]_vars

\* The scan is a sequential computation: while a step is possible, one is taken.
FairSpec == Spec /\ WF_vars(Next)

TypeOK ==
    /\ source \in Inputs
    /\ pc \in {"loop", "branch", "unquoted", "double_quoted",
               "done", "error", "panic", "abort"}
    /\ previous_arm \in {"None", "SingleQuoted", "DoubleQuoted"}
    /\ current \in 0..(2 * MaxLen + 1)
    /\ start \in 0..(2 * MaxLen)
    /\ caller \in {"none", "scan_tokens", "scan_unquoted_word"}
    /\ result.kind \in {"none", "Ok", "Err"}

-----------------------------------------------------------------------------
(* The scan as a function of the line: what scan_tokens does on line s, *)
(* computed by the same tests and assignments as the steps above.        *)

\* What a scan ends in: Ok(tokens), Err(message), a panic, or an abort.
Outcome(kind, ts, msg) == [kind |-> kind, tokens |-> ts, message |-> msg]

\* The outcome of a scan that a sub-scanner's error or panic ends.
SubOutcome(ret) ==
    IF ret.kind = "Err" THEN Outcome("Err", <<>>, ret.message)
    ELSE Outcome("Panic", <<>>, "")

LineLen(s) == Len(Bytes(s))

IsCharBoundaryIn(s, i) ==
    \/ i = 0
    \/ i = LineLen(s)
    \/ i < LineLen(s) /\ Bytes(s)[i + 1] # "cont"

RECURSIVE FindClosingSingleQuoteIn(_, _)
FindClosingSingleQuoteIn(s, i) ==
    IF ~(i < Len(s)) THEN -1
    ELSE IF s[i + 1] = "'" THEN i
    ELSE FindClosingSingleQuoteIn(s, i + 1)

SingleQuotedIn(s, st) ==
    LET end_at == FindClosingSingleQuoteIn(s, st + 1) IN
    IF end_at = -1 THEN SubErr(SingleQuoteMessage)
    ELSE IF ~(/\ st + 1 <= end_at
              /\ end_at <= LineLen(s)
              /\ IsCharBoundaryIn(s, st + 1)
              /\ IsCharBoundaryIn(s, end_at)) THEN SubPanic
    ELSE SubOk(end_at + 1, Decode(SubSeq(Bytes(s), st + 2, end_at)))

RECURSIVE DoubleQuotedIn(_, _, _)
DoubleQuotedIn(s, i, value) ==
    IF ~(i < Len(s)) THEN SubErr(DoubleQuoteMessage)
    ELSE IF s[i + 1] = "\"" THEN SubOk(i + 1, value)
    ELSE IF s[i + 1] = "\\"
         THEN DoubleQuotedIn(s, i + 2,
                  value \o DoubleQuotedEscape(IF i + 1 < Len(s) THEN s[i + 2] ELSE NoChar))
    ELSE DoubleQuotedIn(s, i + 1, Append(value, s[i + 1]))

RECURSIVE UnquotedWordIn(_, _, _)
UnquotedWordIn(s, cur, value) ==
    IF ~(cur < LineLen(s)) THEN SubOk(cur, value)
    ELSE IF ~(cur < Len(s)) THEN SubPanic
    ELSE IF is_metacharacter(s[cur + 1]) THEN SubOk(cur, value)
    ELSE IF s[cur + 1] = "\\"
         THEN IF cur + 1 < LineLen(s)
              THEN IF cur + 1 < Len(s)
                   THEN UnquotedWordIn(s, cur + 2, Append(value, s[cur + 2]))
                   ELSE SubPanic
              ELSE SubErr(BackslashMessage)
    ELSE IF s[cur + 1] = "'"
         THEN LET ret == SingleQuotedIn(s, cur) IN
              IF ret.kind = "Ok"
              THEN UnquotedWordIn(s, ret.pos, value \o ret.value) ELSE ret
    ELSE IF s[cur + 1] = "\""
         THEN LET ret == DoubleQuotedIn(s, cur + 1, <<>>) IN
              IF ret.kind = "Ok"
              THEN UnquotedWordIn(s, ret.pos, value \o ret.value) ELSE ret
    ELSE UnquotedWordIn(s, cur + 1, Append(value, s[cur + 1]))

RECURSIVE ScanFrom(_, _, _, _)
ScanFrom(s, cur, ts, arm) ==
    IF ~(cur < LineLen(s)) THEN Outcome("Ok", Append(ts, EofToken), "")
    ELSE IF ~(cur < Len(s)) THEN Outcome("Panic", <<>>, "")
    ELSE IF s[cur + 1] = " " \/ s[cur + 1] = "\t" THEN ScanFrom(s, cur + 1, ts, arm)
    ELSE IF s[cur + 1] = "'"
         THEN LET value == SingleQuotedIn(s, cur) IN
              IF value.kind = "Ok"
              THEN ScanFrom(s, value.pos, Append(ts, StringToken(value.value)),
                            "SingleQuoted")
              ELSE SubOutcome(value)
    ELSE IF s[cur + 1] = "\""
         THEN LET value == DoubleQuotedIn(s, cur + 1, <<>>) IN
              IF value.kind = "Ok"
              THEN ScanFrom(s, value.pos, Append(ts, StringToken(value.value)),
                            "DoubleQuoted")
              ELSE SubOutcome(value)
    ELSE LET value == UnquotedWordIn(s, cur, <<>>) IN
         IF value.kind # "Ok" THEN SubOutcome(value)
         ELSE IF arm = "None" /\ Len(ts) >= MaxTokens THEN Outcome("Abort", <<>>, "")
         ELSE ScanFrom(s, value.pos, PushUnquoted(ts, arm, value.value), "None")

\* Scanner::new(s).scan_tokens()
scan_tokens(s) == ScanFrom(s, 0, <<>>, "None")

-----------------------------------------------------------------------------
(* The whitespace splitter of the read-eval loop (src/src/line_parser.rs) *)

is_ascii_whitespace(ch) == ch \in {" ", "\t", "\n", "\f", "\r"}

\* The for loop of LineParser::parse from character i on (1-based), and the
\* push of the last piece after it.
RECURSIVE ParseFrom(_, _, _, _)
ParseFrom(line, i, cur, ans) ==
    IF i > Len(line)
    THEN IF cur # <<>> THEN Append(ans, cur) ELSE ans
    ELSE IF ~is_ascii_whitespace(line[i])
         THEN ParseFrom(line, i + 1, Append(cur, line[i]), ans)
         ELSE IF cur # <<>>
              THEN ParseFrom(line, i + 1, <<>>, Append(ans, cur))
              ELSE ParseFrom(line, i + 1, cur, ans)

parse(line) == ParseFrom(line, 1, <<>>, <<>>)

-----------------------------------------------------------------------------
(* The read-eval loop (src/src/shell.rs) *)

\* Longest line read from the standard input, its line end not counted.
MaxLine == 4

LineAlphabet == {"e", "x", "i", "t", " ", "\t"}

\* What stdin.read_line can put into input: a line with its line end, or
\* the rest of the stream when it ends without one.
RawLines ==
    LET bodies == UNION {[1..n -> LineAlphabet] : n \in 0..MaxLine}
    IN  bodies \cup {b \o <<"\n">> : b \in bodies}

\* The vertical tab character.
VerticalTab == "VT"

\* char::is_whitespace, on the characters of one byte.
is_whitespace(ch) == ch \in {" ", "\t", "\n", VerticalTab, "\f", "\r"}

RECURSIVE TrimStart(_)
TrimStart(s) ==
    IF s # <<>> /\ is_whitespace(Head(s)) THEN TrimStart(Tail(s)) ELSE s

RECURSIVE TrimEnd(_)
TrimEnd(s) ==
    IF s # <<>> /\ is_whitespace(s[Len(s)])
    THEN TrimEnd(SubSeq(s, 1, Len(s) - 1)) ELSE s

\* str::trim
Trim(s) == TrimEnd(TrimStart(s))

ExitCommandName == <<"e", "x", "i", "t">>

ReplInit ==
    /\ source = <<>>
    /\ pc = "loop"
    /\ previous_arm = "None"
    /\ tokens = <<>>
    /\ current = 0
    /\ start = 0
    /\ uw_current = 0
    /\ uw_value = <<>>
    /\ dq_iter = 0
    /\ dq_value = <<>>
    /\ caller = "none"
    /\ result = NoResult
    /\ shell_pc = "prompt"
    /\ input = <<>>
    /\ args = <<>>

\* Shell::repl, line 53.
PrintPrompt ==
    /\ shell_pc = "prompt"
    /\ shell_pc' = "read_line"
    /\ UNCHANGED <<input, args>>
    /\ UNCHANGED scan_vars

\* Shell::repl, line 54, and Shell::read_line.
ReadLine ==
    /\ shell_pc = "read_line"
    /\ \E raw \in RawLines : input' = Trim(raw)
    /\ shell_pc' = "parse"
    /\ UNCHANGED args
    /\ UNCHANGED scan_vars

\* Shell::repl, line 55.
ParseLine ==
    /\ shell_pc = "parse"
    /\ args' = parse(input)
    /\ shell_pc' = "test"
    /\ UNCHANGED input
    /\ UNCHANGED scan_vars

\* Shell::repl, lines 56-58: an empty argument vector, continue.
SkipEmptyLine ==
    /\ shell_pc = "test"
    /\ args = <<>>
    /\ shell_pc' = "prompt"
    /\ input' = <<>>
    /\ UNCHANGED args
    /\ UNCHANGED scan_vars

\* CallExecute without the test of args.is_empty().
CallExecute_Untested ==
    /\ shell_pc = "test"
    /\ shell_pc' = "execute"
    /\ UNCHANGED <<input, args>>
    /\ UNCHANGED scan_vars

\* Shell::repl, lines 56-59: Shell::execute is entered.
CallExecute ==
    /\ shell_pc = "test"
    /\ args # <<>>
    /\ shell_pc' = "execute"
    /\ UNCHANGED <<input, args>>
    /\ UNCHANGED scan_vars

\* Shell::execute: the assertion, then the command; the exit builtin ends the
\* process, every other command hands back a status that repl drops.
Execute ==
    /\ shell_pc = "execute"
    /\ shell_pc' = IF args = <<>> THEN "panic"
                   ELSE IF args[1] = ExitCommandName THEN "exited"
                   ELSE "prompt"
    /\ input' = IF args # <<>> /\ args[1] # ExitCommandName THEN <<>> ELSE input
    /\ args' = IF args # <<>> /\ args[1] # ExitCommandName THEN <<>> ELSE args
    /\ UNCHANGED scan_vars

ReplNext ==
    \/ PrintPrompt
    \/ ReadLine
    \/ ParseLine
    \/ SkipEmptyLine
    \/ CallExecute
    \/ Execute

ReplSpec == ReplInit /\ [][ReplNext]_vars

-----------------------------------------------------------------------------
(* Vocabulary of the properties *)

Blank == {" ", "\t"}

Lexemes(ts) == [i \in 1..Len(ts) |-> ts[i].lexeme]

\* The quoting state of a line after one more character, as the scanner's
\* contract describes it: plain (unquoted), escape (just after an unquoted
\* backslash), single, double, double_escape (after a backslash in "...").
QuoteStep(m, ch) ==
    CASE m = "plain" -> (IF ch = "\\" THEN "escape"
                         ELSE IF ch = "'" THEN "single"
                         ELSE IF ch = "\"" THEN "double" ELSE "plain")
      [] m = "escape" -> "plain"
      [] m = "single" -> (IF ch = "'" THEN "plain" ELSE "single")
      [] m = "double" -> (IF ch = "\"" THEN "plain"
                          ELSE IF ch = "\\" THEN "double_escape" ELSE "double")
      [] OTHER -> "double"

\* The quoting state after the first k characters of the source line.
RECURSIVE QuoteStateAfter(_)
QuoteStateAfter(k) ==
    IF k = 0 THEN "plain" ELSE QuoteStep(QuoteStateAfter(k - 1), source[k])

\* Character k of the line (1-based) is an unquoted, unescaped space or tab.
IsSeparator(k) ==
    k \in 1..Len(source) /\ source[k] \in Blank /\ QuoteStateAfter(k - 1) = "plain"

\* The characters strictly between the ' at character index s (0-based) and
\* the first ' after it.
SingleQuotedText(s) ==
    LET closing == {j \in (s + 2)..Len(source) : source[j] = "'"}
        first == CHOOSE j \in closing : \A k \in closing : j <= k
    IN  SubSeq(source, s + 2, first - 1)

HasClosingSingleQuote(s) == \E j \in (s + 2)..Len(source) : source[j] = "'"

\* A step in which scan_tokens finishes the segment that began at start and
\* goes back to its loop.
SegmentDone ==
    /\ pc \in {"branch", "double_quoted", "unquoted"}
    /\ pc = "double_quoted" => caller = "scan_tokens"
    /\ pc' = "loop"
    /\ c \notin Blank

\* The processed text of the segment a SegmentDone step finishes.
SegmentText ==
    CASE pc = "unquoted" -> uw_value
      [] pc = "double_quoted" -> dq_value
      [] OTHER -> SingleQuotedText(start)

-----------------------------------------------------------------------------
(* Properties *)

\* C1: for every input line scan_tokens terminates: the scan reaches a final
\* state in which it has returned a token sequence or a ScanError.
C1_Terminates == <>(pc \in {"done", "error"})

\* C2: a segment that begins right after an unquoted, unescaped space or tab
\* goes into a new Word token, whatever the kind of the segments on either
\* side, and skipping such a space or tab leaves every token text as it is.
C2_WhitespaceSeparates ==
    [][/\ (SegmentDone /\ start > 0 /\ IsSeparator(start) /\ ~is_metacharacter(c))
            => Len(tokens') = Len(tokens) + 1
       /\ (pc = "branch" /\ c \in Blank) => tokens' = tokens]_vars

\* C3: a quoted or unquoted segment that begins right after another segment,
\* with no whitespace between them, adds no Word token: its processed text
\* is appended to the text of the Word being built.
C3_AdjacentSegmentsJoin ==
    [][(SegmentDone /\ start > 0 /\ ~IsSeparator(start) /\ ~is_metacharacter(c))
          => /\ tokens # <<>>
             /\ Len(tokens') = Len(tokens)
             /\ SubSeq(tokens', 1, Len(tokens) - 1) = SubSeq(tokens, 1, Len(tokens) - 1)
             /\ tokens'[Len(tokens)].type_ = "String"
             /\ tokens'[Len(tokens)].lexeme = tokens[Len(tokens)].lexeme \o SegmentText]_vars

\* C4: every successful scan returns a sequence whose last token is the only
\* Eof token and has an empty text, every token before it being a String
\* token; a line of spaces and tabs only (the empty line too) is scanned
\* successfully, to the sequence that holds the Eof token alone.
C4_OneEndToken ==
    /\ pc = "done" =>
          /\ result.kind = "Ok"
          /\ Len(result.tokens) >= 1
          /\ result.tokens[Len(result.tokens)] = [type_ |-> "Eof", lexeme |-> <<>>]
          /\ \A i \in 1..(Len(result.tokens) - 1) : result.tokens[i].type_ = "String"
    /\ (\A i \in 1..Len(source) : source[i] \in Blank) =>
          /\ pc \in {"loop", "branch", "done"}
          /\ pc = "done" => Len(result.tokens) = 1

C4_Witness ==
    /\ pc = "done"
    /\ Len(result.tokens) = 3
    /\ source[1] \in Blank

\* C5: for an input with no quote and no backslash character the scan
\* returns, and the Word texts it returns are, in order, the pieces
\* LineParser::parse splits the input into, followed by the Eof token.
NoQuoteNoBackslash == \A i \in 1..Len(source) : source[i] \notin {"'", "\"", "\\"}

C5_EqualsWhitespaceSplit ==
    NoQuoteNoBackslash =>
        /\ pc \notin {"error", "panic", "abort"}
        /\ pc = "done" =>
              /\ result.kind = "Ok"
              /\ Lexemes(SubSeq(result.tokens, 1, Len(result.tokens) - 1)) = parse(source)
              /\ result.tokens[Len(result.tokens)].type_ = "Eof"

\* C6: inside a double-quoted segment a backslash followed by a character
\* other than $, grave accent, ", \ and n contributes the backslash and that
\* character, in that order.
C6_OtherEscapeKept ==
    [][(/\ pc = "double_quoted"
        /\ dq_iter + 1 < Len(source)
        /\ source[dq_iter + 1] = "\\"
        /\ source[dq_iter + 2] \notin {"$", Backtick, "\"", "\\", "n"})
          => dq_value' = dq_value \o <<"\\", source[dq_iter + 2]>>]_vars

\* C7: inside a double-quoted segment a backslash followed by one of $,
\* grave accent, ", \ contributes that character alone and the segment goes
\* on; a backslash followed by n contributes backslash and n; any other
\* character before the closing " is contributed as it is; and the text so
\* built is what the segment gives to the Word.
C7_EscapeStep ==
    /\ (/\ pc = "double_quoted"
        /\ dq_iter + 1 < Len(source)
        /\ source[dq_iter + 1] = "\\"
        /\ source[dq_iter + 2] \in {"$", Backtick, "\"", "\\"})
          => /\ dq_value' = Append(dq_value, source[dq_iter + 2])
             /\ dq_iter' = dq_iter + 2
             /\ pc' = "double_quoted"
    /\ (/\ pc = "double_quoted"
        /\ dq_iter + 1 < Len(source)
        /\ source[dq_iter + 1] = "\\"
        /\ source[dq_iter + 2] = "n")
          => /\ dq_value' = dq_value \o <<"\\", "n">>
             /\ dq_iter' = dq_iter + 2
             /\ pc' = "double_quoted"
    /\ (/\ pc = "double_quoted"
        /\ dq_iter < Len(source)
        /\ source[dq_iter + 1] \notin {"\\", "\""})
          => /\ dq_value' = Append(dq_value, source[dq_iter + 1])
             /\ dq_iter' = dq_iter + 1
             /\ pc' = "double_quoted"
    /\ (/\ pc = "double_quoted"
        /\ dq_iter < Len(source)
        /\ source[dq_iter + 1] = "\"")
          => IF caller = "scan_tokens"
             THEN tokens' = Append(tokens, [type_ |-> "String", lexeme |-> dq_value])
             ELSE uw_value' = uw_value \o dq_value

C7_DoubleQuotedEscapes == [][C7_EscapeStep]_vars

C7_Witness ==
    /\ pc = "done"
    /\ source = <<"\"", "\\", "n", "\"">>
    /\ result.tokens = <<[type_ |-> "String", lexeme |-> <<"\\", "n">>],
                         [type_ |-> "Eof", lexeme |-> <<>>]>>

\* C8: a single-quoted segment that has its closing ' contributes exactly
\* the characters strictly between the opening ' and the first ' after it.
C8_SingleQuotedLiteral ==
    [][/\ (pc = "branch" /\ c = "'" /\ HasClosingSingleQuote(start))
            => /\ pc' = "loop"
               /\ tokens' = Append(tokens, [type_ |-> "String",
                                            lexeme |-> SingleQuotedText(start)])
       /\ (/\ pc = "unquoted"
           /\ uw_current < Len(source)
           /\ source[uw_current + 1] = "'"
           /\ HasClosingSingleQuote(uw_current))
            => /\ pc' = "unquoted"
               /\ uw_value' = uw_value \o SingleQuotedText(uw_current)]_vars

\* C9: in an unquoted segment a backslash that is followed by a character
\* is dropped and that character, whatever it is, is appended to the word,
\* which goes on: the step neither ends the Word nor opens a quote.
C9_EscapeStep ==
    (/\ pc = "unquoted"
     /\ uw_current + 1 < Len(source)
     /\ source[uw_current + 1] = "\\")
       => /\ uw_value' = Append(uw_value, source[uw_current + 2])
          /\ uw_current' = uw_current + 2
          /\ pc' = "unquoted"
          /\ tokens' = tokens

C9_UnquotedBackslash == [][C9_EscapeStep]_vars

C9_Witness ==
    /\ pc = "done"
    /\ source = <<"a", "\\", " ", "n">>
    /\ result.tokens = <<[type_ |-> "String", lexeme |-> <<"a", " ", "n">>],
                         [type_ |-> "Eof", lexeme |-> <<>>]>>

\* C10: a line that ends inside a single-quoted or a double-quoted segment,
\* or right after an unquoted backslash, makes scan_tokens return a
\* ScanError, and the error carries no token.
EndsUnterminated == QuoteStateAfter(Len(source)) # "plain"

C10_UnterminatedIsError ==
    /\ EndsUnterminated => pc \notin {"done", "panic", "abort"}
    /\ pc = "error" => result.kind = "Err" /\ result.tokens = <<>>

\* C11: the scanner indexes its line by character: on a line that holds a
\* multi-byte character every cursor value used to read a character is a
\* character index of the line and the scan does not crash, and a line made
\* of multi-byte and ordinary characters only is scanned to the one Word
\* that holds those characters.
HasMultiByte == \E i \in 1..Len(source) : source[i] = MultiByte

OrdinaryOnly == \A i \in 1..Len(source) : source[i] \in {"a", "n", "$", MultiByte}

C11_CharacterIndexed ==
    HasMultiByte =>
        /\ pc # "panic"
        /\ (pc = "loop" /\ current < SourceLen) => current < Len(source)
        /\ (pc = "unquoted" /\ uw_current < SourceLen) => uw_current < Len(source)
        /\ OrdinaryOnly =>
              /\ pc \notin {"error", "abort"}
              /\ pc = "done" =>
                    result.tokens = <<[type_ |-> "String", lexeme |-> source],
                                      [type_ |-> "Eof", lexeme |-> <<>>]>>

\* C14: no step of a scan makes the cursor of scan_tokens smaller.
C14_CursorMonotonic == [][current' >= current]_vars

\* C13: in the read-eval loop a line whose argument vector is empty (an
\* empty line, a line of whitespace only) is skipped and the loop goes to
\* the next prompt; Shell::execute is never entered with an empty argument
\* vector, so its assertion never fails.
C13_EmptyLineSkipped ==
    /\ [](shell_pc = "execute" => args # <<>>)
    /\ [](shell_pc # "panic")
    /\ []((shell_pc = "test" /\ input = <<>>) => args = <<>>)
    /\ [][(shell_pc = "test" /\ args = <<>>) => shell_pc' = "prompt"]_vars

C13_Witness ==
    /\ shell_pc = "test"
    /\ input = <<>>
    /\ args = <<>>

\* C12: on any line, putting one more space or tab into a run of unquoted,
\* unescaped spaces and tabs, taking one out of a run of two or more, or
\* changing one of them into the other kind, does not change what the scan
\* ends in: the same Word texts in the same order, or the same error.
\* (Any change of a run into a run of another positive length is a
\* sequence of such changes.)
RECURSIVE QuoteStateIn(_, _)
QuoteStateIn(s, k) ==
    IF k = 0 THEN "plain" ELSE QuoteStep(QuoteStateIn(s, k - 1), s[k])

IsSeparatorIn(s, k) ==
    k \in 1..Len(s) /\ s[k] \in Blank /\ QuoteStateIn(s, k - 1) = "plain"

BlankVariants(s) ==
    LET seps == {k \in 1..Len(s) : IsSeparatorIn(s, k)} IN
    {SubSeq(s, 1, k - 1) \o <<b>> \o SubSeq(s, k, Len(s)) : k \in seps, b \in Blank}
    \cup {[s EXCEPT ![k] = b] : k \in seps, b \in Blank}
    \cup {SubSeq(s, 1, k - 1) \o SubSeq(s, k + 1, Len(s)) :
             k \in {j \in seps : j + 1 \in seps}}

\* What the scan of the source line has ended in.
Observed ==
    CASE pc = "done" -> Outcome("Ok", result.tokens, "")
      [] pc = "error" -> Outcome("Err", <<>>, result.message)
      [] pc = "panic" -> Outcome("Panic", <<>>, "")
      [] OTHER -> Outcome("Abort", <<>>, "")

====
